---- MODULE Spec2Model ----
(***************************************************************************)
(* Model of the project-management dashboard's write path (REST views of   *)
(* backend/projects), its ledger (Activity rows), the channel-layer        *)
(* fan-out (backend/websocket_service/channels_broadcast.py) and the       *)
(* websocket consumers (backend/core/consumers.py,                         *)
(* backend/websocket_service/consumers.py).                                *)
(*                                                                         *)
(* The database runs in autocommit mode (settings.py sets no               *)
(* ATOMIC_REQUESTS), so every ORM statement outside transaction.atomic is  *)
(* its own transaction.  A REST handler is therefore a sequence of steps,  *)
(* one per database statement or channel-layer call, and the steps of      *)
(* different requests interleave.                                          *)
(***************************************************************************)
EXTENDS Integers, Sequences, FiniteSets, TLC

(***************************************************************************)
(* Bounds of the model.                                                    *)
(***************************************************************************)
MaxReq == 2
MaxSess == 2

Requests == 1..MaxReq
Sessions == 1..MaxSess

Users == {"ann", "bob", "eve", "root"}
Superusers == {"root"}
ProjectIds == {1, 2}

(***************************************************************************)
(* Values.  None of Python is NoneVal; a missing or empty (falsy) etag of  *)
(* a request is NoEtag.  md5 is taken to be injective on the strings it is *)
(* given, so an etag is the pair it is computed from.  A primary key that  *)
(* is not assigned yet (None) is 0 and an updated_at that is not set yet   *)
(* (None) is 0; the clock starts at 1.                                     *)
(***************************************************************************)
NoneVal == "None"
NoEtag == <<>>
WrongEtag == <<0, -1>>

TrackedFields == {"title", "description", "status", "health", "progress",
                  "start_date", "end_date"}
STATUS_CHOICES == {"active", "on_hold", "archived", "completed"}
HEALTH_CHOICES == {"healthy", "at_risk", "critical"}

\* BaseModel.generate_etag: md5 of {"id": pk, "updated_at": str(updated_at)}
generate_etag(pk, updated_at) == <<pk, updated_at>>

VARIABLES
    now,        \* the clock read by auto_now at every save
    projects,   \* Project table: id -> row (soft-deleted rows included)
    team,       \* TeamMember table: set of [project, user, role]
    ledger,     \* Activity table, in insertion order
    etags_seen, \* every etag a client may have read so far
    req,        \* REST requests in flight: request -> its handler's frame
    groups,     \* channel layer: group name -> set of channels (sessions)
    sess,       \* websocket consumers: session -> its state
    inbox,      \* channel layer: per channel, the messages sent to it
    txn,        \* open transaction.atomic blocks: request -> uncommitted rows
    milestones, \* Milestone table: id -> row
    tasks       \* Task table: id -> row (soft-deleted rows included)

vars == <<now, projects, team, ledger, etags_seen, req, groups, sess, inbox, txn,
          milestones, tasks>>

(***************************************************************************)
(* Rows and frames.                                                        *)
(***************************************************************************)
UserId == [ann |-> 1, bob |-> 2, eve |-> 3, root |-> 4]

\* Project field defaults (models.py: status "active", health "healthy",
\* progress 0, blank description, null dates)
DefaultFields == [title |-> "P", description |-> "", status |-> "active",
                  health |-> "healthy", progress |-> 0,
                  start_date |-> NoneVal, end_date |-> NoneVal]

\* An instance that was never saved: pk None, updated_at None, version 1
NewInstance(owner, f) ==
    [id |-> 0, owner |-> owner, f |-> f, deleted |-> FALSE,
     version |-> 1, etag |-> NoEtag, updated_at |-> 0]

NoInst == NewInstance("none", DefaultFields)
NoChanges == [changed_fields |-> {}, previous_values |-> <<>>, new_values |-> <<>>]

\* logged: the logger.error lines the broadcast functions wrote for the request
Idle == [pc |-> "idle", op |-> "none", user |-> "none", pid |-> 0, pids |-> {},
         etag |-> NoEtag, data |-> <<>>, inst |-> NoInst, insts |-> <<>>,
         changes |-> NoChanges, at |-> 0, resp |-> 0, logged |-> 0]

\* No transaction.atomic block open
NoTxn == [rows |-> <<>>, entries |-> <<>>]

\* data overlaid on the fields f (ModelSerializer.update: setattr per item)
Overlay(f, data) ==
    [k \in DOMAIN f |-> IF k \in DOMAIN data THEN data[k] ELSE f[k]]

\* BaseModel.save as seen by the database: the etag is generated from the
\* instance's pk and its updated_at BEFORE the write, auto_now then sets
\* updated_at, the row is written with the instance's version, and only the
\* in-memory instance has its version incremented afterwards.
SavedRow(inst, pk, t) ==
    [inst EXCEPT !.id = pk,
                 !.etag = generate_etag(inst.id, inst.updated_at),
                 !.updated_at = t]

\* The in-memory instance after BaseModel.save returned
SavedInstance(inst, pk, t) ==
    [SavedRow(inst, pk, t) EXCEPT !.version = inst.version + 1]

IsMember(p, u) == \E m \in team : m.project = p /\ m.user = u
RoleOf(p, u) == (CHOOSE m \in team : m.project = p /\ m.user = u).role

\* A view check that forgets team members
can_view_owner_only(u, p) == u \in Superusers \/ projects[p].owner = u

\* permissions.can_view_project_details
can_view_project_details(u, p) ==
    \/ u \in Superusers
    \/ projects[p].owner = u
    \/ IsMember(p, u)

\* permissions.CanEditProject.has_object_permission for an unsafe method
CanEditProject(u, p) ==
    \/ u \in Superusers
    \/ projects[p].owner = u
    \/ (IsMember(p, u) /\ RoleOf(p, u) \in {"lead", "manager"})

\* An owner check that also lets team leads through
IsProjectOwnerOrLead(u, p) ==
    \/ projects[p].owner = u
    \/ u \in Superusers
    \/ (IsMember(p, u) /\ RoleOf(p, u) = "lead")

\* permissions.IsProjectOwner.has_object_permission
IsProjectOwner(u, p) == projects[p].owner = u \/ u \in Superusers

\* The queryset on SoftDeleteManager.with_deleted: soft-deleted rows stay
with_deleted(u) ==
    {p \in DOMAIN projects :
        u \in Superusers \/ projects[p].owner = u \/ IsMember(p, u)}

\* ProjectViewSet.deleted: Project.objects.only_deleted(), for a superuser
\* all of them, for others those they own
only_deleted(u) ==
    {p \in DOMAIN projects :
        /\ projects[p].deleted
        /\ (u \in Superusers \/ projects[p].owner = u)}

\* A queryset without the owner / team-member filter
get_queryset_unfiltered(u) == {p \in DOMAIN projects : ~projects[p].deleted}

\* ProjectViewSet.get_queryset: Project.objects hides soft-deleted rows,
\* a superuser sees all, others the projects they own or are a member of
get_queryset(u) ==
    {p \in DOMAIN projects :
        /\ ~projects[p].deleted
        /\ (u \in Superusers \/ projects[p].owner = u \/ IsMember(p, u))}

\* permissions.CanViewProjectDetails.has_object_permission
CanViewProjectDetails(u, p) ==
    \/ u \in Superusers
    \/ projects[p].owner = u
    \/ IsMember(p, u)

\* GET /api/projects/<p>/ (retrieve): get_object takes the row from
\* get_queryset (404 if it is not there) and checks CanViewProjectDetails
RetrieveStatus(u, p) ==
    IF p \notin get_queryset(u) THEN 404
    ELSE IF ~CanViewProjectDetails(u, p) THEN 403
    ELSE 200

\* ProjectCreateUpdateSerializer validation of a partial payload
ValidData(data) ==
    /\ DOMAIN data \subseteq TrackedFields
    /\ ("progress" \in DOMAIN data => data.progress \in 0..100)
    /\ ("status" \in DOMAIN data => data.status \in STATUS_CHOICES)
    /\ ("health" \in DOMAIN data => data.health \in HEALTH_CHOICES)

\* str(value) of capture_project_changes: the integer field becomes its
\* decimal string, the text fields are their own str, None stays None
StrValue(k, v) == IF k = "progress" THEN ToString(v) ELSE v

\* views.capture_project_changes
capture_project_changes(instance, data) ==
    LET changed == {k \in TrackedFields :
                       k \in DOMAIN data /\ instance.f[k] # data[k]}
    IN [changed_fields |-> changed,
        previous_values |-> [k \in changed |-> StrValue(k, instance.f[k])],
        new_values |-> [k \in changed |-> StrValue(k, data[k])]]

\* An Activity row; req is the request that wrote it (0: the fixture)
Entry(p, type, u, r, ch) ==
    [project |-> p, activity_type |-> type, user |-> u, req |-> r,
     changed_fields |-> ch.changed_fields,
     previous_values |-> ch.previous_values,
     new_values |-> ch.new_values]

(***************************************************************************)
(* Channel layer.                                                          *)
(***************************************************************************)
\* Group names: f"user_{id}", f"project_{id}", f"project_tasks_{id}",
\* f"project_updates_{id}"
Group(kind, id) == <<kind, id>>

Members(g) == {s \in Sessions : <<g, s>> \in groups}

\* channel_layer.group_add / group_discard
group_add(g, s) == groups \cup {<<g, s>>}
group_discard(g, s) == groups \ {<<g, s>>}

\* channel_layer.group_send: one copy of the message on every channel that
\* is in the group now; nothing is kept for later subscribers
group_send(box, g, ev) ==
    [s \in Sessions |-> IF s \in Members(g) THEN Append(box[s], ev) ELSE box[s]]

\* Every message the channel layer has put on the channel of s: those its
\* consumer has handled and those still queued
Received(s) == sess[s].sent \o inbox[s]

\* The message of a broadcast function; req is the request that sent it
Event(type, event_type, p, r) ==
    [type |-> type, event_type |-> event_type, project_id |-> p, req |-> r]

\* channels_broadcast.broadcast_project_update
broadcast_project_update(box, p, event_type, r) ==
    group_send(box, Group("project", p), Event("project_updated", event_type, p, r))

\* channels_broadcast.notify_project_team: exclude_user is accepted and
\* never read, the message goes to the whole project room
notify_project_team(box, p, event_type, r, exclude_user) ==
    group_send(box, Group("project", p),
               Event("notification_received", event_type, p, r))

\* channels_broadcast.broadcast_team_member_change
broadcast_team_member_change(box, p, event_type, r) ==
    group_send(box, Group("project", p),
               Event("team_member_changed", event_type, p, r))

\* channels_broadcast.broadcast_milestone_change
broadcast_milestone_change(box, p, event_type, r) ==
    group_send(box, Group("project", p),
               Event("milestone_changed", event_type, p, r))

\* channels_broadcast.broadcast_task_change: the message's type is the
\* caller's event_type
broadcast_task_change(box, p, event_type, r) ==
    group_send(box, Group("project_tasks", p), Event(event_type, event_type, p, r))

\* channels_broadcast.broadcast_comment_change
broadcast_comment_change(box, p, event_type, r) ==
    group_send(box, Group("project", p), Event("comment_changed", event_type, p, r))

(***************************************************************************)
(* REST: the frame of request r moves through its handler.                 *)
(***************************************************************************)
\* The response ends the handler: its locals are gone, what stays is what
\* the request was (operation, user, target, etag sent), the updated_at of
\* the row it committed (at; 0: it committed none) and its status code
Answered(fr, code) ==
    [Idle EXCEPT !.pc = "done", !.op = fr.op, !.user = fr.user, !.pid = fr.pid,
                 !.pids = fr.pids, !.etag = fr.etag, !.at = fr.at, !.resp = code,
                 !.logged = fr.logged]

Respond(r, code) == req' = [req EXCEPT ![r] = Answered(req[r], code)]

\* A row that an open transaction.atomic block has written is locked until
\* the block commits or rolls back
Locked(p) == \E q \in Requests : p \in DOMAIN txn[q].rows

EtagInputs == {NoEtag, WrongEtag} \cup etags_seen

UpdatePayloads ==
    { [progress |-> 50],
      [status |-> "on_hold", progress |-> 0],
      [progress |-> 150] }

\* perform_update with the etag test left out
EtagUnchecked(etag, instance) == FALSE

\* The etag test of ProjectViewSet.perform_update:
\* if etag and etag != instance.etag: raise OptimisticConcurrencyException()
EtagConflict(etag, instance) == etag # NoEtag /\ etag # instance.etag

\* UpdateModelMixin.update up to perform_update: get_object (queryset, then
\* object permissions), then serializer validation
UpdateLoad(r, U) ==
    /\ req[r].pc = "idle"
    /\ \E u \in U, p \in ProjectIds, e \in EtagInputs, d \in UpdatePayloads :
         LET fr == [Idle EXCEPT !.op = "update", !.user = u, !.pid = p,
                                !.etag = e, !.data = d]
         IN  req' = [req EXCEPT ![r] =
                 IF p \notin get_queryset(u)
                 THEN Answered(fr, 404)
                 ELSE IF ~CanEditProject(u, p)
                 THEN Answered(fr, 403)
                 ELSE IF ~ValidData(d)
                 THEN Answered(fr, 400)
                 ELSE [fr EXCEPT !.pc = "check", !.inst = projects[p]]]
    /\ UNCHANGED <<now, projects, team, ledger, etags_seen, groups, sess, inbox, txn, milestones, tasks>>

\* A perform_update that saves the row before it tests the etag
UpdateCheckAfterSave(r) ==
    /\ req[r].pc = "check"
    /\ LET p == req[r].pid
           inst == [req[r].inst EXCEPT !.f = Overlay(@, req[r].data)]
       IN  IF p \in DOMAIN projects /\ EtagConflict(req[r].etag, projects[p])
           THEN /\ projects' = [projects EXCEPT ![p] = SavedRow(inst, p, now)]
                /\ Respond(r, 409)
           ELSE /\ projects' = projects
                /\ req' = [req EXCEPT
                      ![r].pc = "save",
                      ![r].changes = capture_project_changes(projects[p], req[r].data)]
    /\ UNCHANGED <<now, team, ledger, etags_seen, groups, sess, inbox, txn, milestones, tasks>>

\* ProjectViewSet.perform_update, lines 184-189: get_object again, the etag
\* test against the row as it is now, capture_project_changes
UpdateCheck(r) ==
    /\ req[r].pc = "check"
    /\ LET u == req[r].user
           p == req[r].pid
       IN  IF p \notin get_queryset(u) THEN Respond(r, 404)
           ELSE IF ~CanEditProject(u, p) THEN Respond(r, 403)
           ELSE IF EtagConflict(req[r].etag, projects[p]) THEN Respond(r, 409)
           ELSE req' = [req EXCEPT
                   ![r].pc = "save",
                   ![r].changes = capture_project_changes(projects[p], req[r].data)]
    /\ UNCHANGED <<now, projects, team, ledger, etags_seen, groups, sess, inbox, txn, milestones, tasks>>

\* ProjectViewSet.perform_update, line 190: serializer.save() writes the
\* instance that update() loaded, with the validated data set on it
UpdateSave(r) ==
    /\ req[r].pc = "save"
    /\ ~Locked(req[r].pid)
    /\ LET p == req[r].pid
           inst == [req[r].inst EXCEPT !.f = Overlay(@, req[r].data)]
       IN  /\ projects' = [projects EXCEPT ![p] = SavedRow(inst, p, now)]
           /\ etags_seen' = etags_seen \cup {projects'[p].etag}
           /\ req' = [req EXCEPT ![r].pc = "log", ![r].at = now,
                                 ![r].inst = SavedInstance(inst, p, now)]
    /\ now' = now + 1
    /\ UNCHANGED <<team, ledger, groups, sess, inbox, txn, milestones, tasks>>

\* ProjectViewSet.perform_update, lines 192-203: Activity.objects.create
UpdateLog(r) ==
    /\ req[r].pc = "log"
    /\ ledger' = Append(ledger, Entry(req[r].pid, "updated", req[r].user, r,
                                      req[r].changes))
    /\ req' = [req EXCEPT ![r].pc = "broadcast"]
    /\ UNCHANGED <<now, projects, team, etags_seen, groups, sess, inbox, txn, milestones, tasks>>

\* ProjectViewSet.perform_update, lines 205-210
UpdateBroadcast(r) ==
    /\ req[r].pc = "broadcast"
    /\ inbox' = broadcast_project_update(inbox, req[r].pid, "updated", r)
    /\ req' = [req EXCEPT ![r].pc = "notify"]
    /\ UNCHANGED <<now, projects, team, ledger, etags_seen, groups, sess, txn, milestones, tasks>>

\* ProjectViewSet.perform_update, lines 211-218, and the 200 of update()
UpdateNotify(r) ==
    /\ req[r].pc = "notify"
    /\ inbox' = notify_project_team(inbox, req[r].pid, "project_updated", r,
                                    req[r].user)
    /\ Respond(r, 200)
    /\ UNCHANGED <<now, projects, team, ledger, etags_seen, groups, sess, txn, milestones, tasks>>

(***************************************************************************)
(* Failures on the update path.  The database runs in autocommit and       *)
(* perform_update opens no transaction, so what was written before a       *)
(* failure stays written.                                                  *)
(***************************************************************************)
\* A broadcast function without its except clause: what group_send raises
\* reaches the view
BroadcastReraises(send_raises) == send_raises

\* Whether an exception of group_send leaves a channels_broadcast function:
\* try: ... group_send ... except Exception as e: logger.error(...)
BroadcastRaises(send_raises) == FALSE

\* ProjectViewSet.perform_update, lines 192-203: Activity.objects.create
\* raises (the insert fails or the worker is stopped); the row saved at
\* line 190 is already committed and the client gets a 500
UpdateLogFails(r) ==
    /\ req[r].pc = "log"
    /\ Respond(r, 500)
    /\ UNCHANGED <<now, projects, team, ledger, etags_seen, groups, sess, inbox, txn, milestones, tasks>>

\* ProjectViewSet.perform_update, lines 205-210, when group_send raises
\* inside broadcast_project_update: no message is put on any channel and
\* the function writes its logger.error line
UpdateBroadcastFails(r) ==
    /\ req[r].pc = "broadcast"
    /\ IF BroadcastRaises(TRUE)
       THEN Respond(r, 500)
       ELSE req' = [req EXCEPT ![r].pc = "notify", ![r].logged = @ + 1]
    /\ UNCHANGED <<now, projects, team, ledger, etags_seen, groups, sess, inbox, txn, milestones, tasks>>

\* ProjectViewSet.perform_update, lines 211-218, when group_send raises
\* inside notify_project_team, and the response of update()
UpdateNotifyFails(r) ==
    /\ req[r].pc = "notify"
    /\ IF BroadcastRaises(TRUE)
       THEN Respond(r, 500)
       ELSE req' = [req EXCEPT ![r] =
                       Answered([req[r] EXCEPT !.logged = @ + 1], 200)]
    /\ UNCHANGED <<now, projects, team, ledger, etags_seen, groups, sess, inbox, txn, milestones, tasks>>

(***************************************************************************)
(* Websocket consumers (core/routing.py: ws/notifications/ is              *)
(* core.consumers.NotificationConsumer, ws/projects/<id>/ is               *)
(* ProjectUpdateConsumer, ws/projects/<id>/tasks/ is TaskUpdateConsumer).  *)
(***************************************************************************)
Consumers == {"notification", "project", "tasks"}
InvalidKinds == {"missing", "malformed", "expired", "bad_signature", "unknown_user"}
Credentials ==
    [kind : InvalidKinds, user : {"none"}] \cup [kind : {"valid"}, user : Users]

NewSession == [state |-> "new", consumer |-> "none", user |-> "none",
               project |-> 0, cred |-> "none", sent |-> <<>>]

\* Token authentication that does not verify the expiry of a token
get_user_from_token_no_expiry(cred) ==
    CASE cred.kind \in {"missing", "malformed", "bad_signature", "unknown_user"}
           -> "anonymous"
      [] cred.kind = "expired" -> "eve"
      [] OTHER -> cred.user

\* get_user_from_token / _authenticate_token: no token, an InvalidToken of
\* the JWT library and any other exception (an unknown user is an
\* AuthenticationFailed) all give AnonymousUser
get_user_from_token(cred) ==
    CASE cred.kind = "missing" -> "anonymous"
      [] cred.kind \in {"malformed", "expired", "bad_signature"} -> "anonymous"
      [] cred.kind = "unknown_user" -> "anonymous"
      [] OTHER -> cred.user

\* An access check that reads soft-deleted projects too
verify_project_access_with_deleted(u, p) ==
    p \in DOMAIN projects /\ can_view_project_details(u, p)

\* TaskUpdateConsumer.verify_project_access
verify_project_access(u, p) ==
    /\ p \in DOMAIN projects
    /\ ~projects[p].deleted
    /\ can_view_project_details(u, p)

\* core.consumers.NotificationConsumer.connect
NotificationConnect(s, cred) ==
    LET u == get_user_from_token(cred)
        base == [NewSession EXCEPT !.consumer = "notification", !.cred = cred.kind,
                                   !.user = u]
    IN  IF u # "anonymous"
        THEN /\ groups' = group_add(Group("user", UserId[u]), s)
             /\ sess' = [sess EXCEPT ![s] = [base EXCEPT !.state = "open"]]
        ELSE /\ groups' = groups
             /\ sess' = [sess EXCEPT ![s] = [base EXCEPT !.state = "rejected"]]

\* websocket_service.consumers.ProjectUpdateConsumer.connect: the class
\* defines no get_user_from_token, so line 32 raises AttributeError before
\* the group is joined and before accept
ProjectUpdateConnect(s, cred, p) ==
    /\ groups' = groups
    /\ sess' = [sess EXCEPT ![s] = [NewSession EXCEPT
                   !.consumer = "project", !.cred = cred.kind, !.project = p,
                   !.state = "crashed"]]

\* websocket_service.consumers.TaskUpdateConsumer.connect
TaskUpdateConnect(s, cred, p) ==
    LET u == get_user_from_token(cred)
        base == [NewSession EXCEPT !.consumer = "tasks", !.cred = cred.kind,
                                   !.user = u, !.project = p]
    IN  IF u = "anonymous"
        THEN /\ groups' = groups
             /\ sess' = [sess EXCEPT ![s] = [base EXCEPT !.state = "rejected"]]
        ELSE IF ~verify_project_access(u, p)
        THEN /\ groups' = groups
             /\ sess' = [sess EXCEPT ![s] = [base EXCEPT !.state = "rejected"]]
        ELSE /\ groups' = group_add(Group("project_tasks", p), s)
             /\ sess' = [sess EXCEPT ![s] = [base EXCEPT !.state = "open"]]

\* A client opens a connection to one of the routed addresses
Connect(s, creds, consumers) ==
    /\ sess[s].state = "new"
    /\ \E cred \in creds, c \in consumers, p \in ProjectIds :
         CASE c = "notification" -> NotificationConnect(s, cred)
           [] c = "project" -> ProjectUpdateConnect(s, cred, p)
           [] c = "tasks" -> TaskUpdateConnect(s, cred, p)
    /\ UNCHANGED <<now, projects, team, ledger, etags_seen, req, inbox, txn, milestones, tasks>>

\* core.consumers.NotificationConsumer.receive: subscribe_project /
\* unsubscribe_project join and leave f"project_{project_id}"; nothing is
\* looked up and nothing is checked.  P is the set of ids clients send.
Receive(s, P) ==
    /\ sess[s].state = "open"
    /\ sess[s].consumer = "notification"
    /\ \E type \in {"subscribe_project", "unsubscribe_project"}, p \in P :
         groups' = IF type = "subscribe_project"
                   THEN group_add(Group("project", p), s)
                   ELSE group_discard(Group("project", p), s)
    /\ UNCHANGED <<now, projects, team, ledger, etags_seen, req, sess, inbox, txn, milestones, tasks>>

\* The disconnect handlers: NotificationConsumer leaves its user room only,
\* TaskUpdateConsumer leaves project_tasks_<id>
Disconnect(s) ==
    /\ sess[s].state = "open"
    /\ sess' = [sess EXCEPT ![s].state = "closed"]
    /\ groups' = IF sess[s].consumer = "notification"
                 THEN group_discard(Group("user", UserId[sess[s].user]), s)
                 ELSE group_discard(Group("project_tasks", sess[s].project), s)
    /\ UNCHANGED <<now, projects, team, ledger, etags_seen, req, inbox, txn, milestones, tasks>>

\* The handler methods of each consumer class (a message's type names the
\* method that handles it)
Handlers(c) ==
    CASE c = "notification" -> {"notification_received", "milestone_changed",
                                "team_member_changed", "project_updated"}
      [] c = "project" -> {"project_update", "activity_event"}
      [] c = "tasks" -> {"task_created", "task_updated", "task_deleted",
                         "task_status_changed", "task_assigned"}
      [] OTHER -> {}

\* The consumer takes the next message of its channel and its handler
\* sends it to the client; a type without a handler raises in dispatch
Deliver(s) ==
    /\ sess[s].state = "open"
    /\ inbox[s] # <<>>
    /\ inbox' = [inbox EXCEPT ![s] = Tail(@)]
    /\ sess' = [sess EXCEPT ![s] =
                  IF Head(inbox[s]).type \in Handlers(sess[s].consumer)
                  THEN [@ EXCEPT !.sent = Append(@, Head(inbox[s]))]
                  ELSE [@ EXCEPT !.state = "crashed"]]
    /\ UNCHANGED <<now, projects, team, ledger, etags_seen, req, groups, txn, milestones, tasks>>

(***************************************************************************)
(* REST: the other project operations.  A handler whose statements are not *)
(* examined for interleaving is one action.                                *)
(***************************************************************************)
Done(r, op, u, p, code) ==
    [Idle EXCEPT !.pc = "done", !.op = op, !.user = u, !.pid = p, !.resp = code]

\* The frame of a handler that saved the row of p at time t
Saved(r, op, u, p, code, t) == [Done(r, op, u, p, code) EXCEPT !.at = t]

NextProjectId == Cardinality(DOMAIN projects) + 1

\* ProjectViewSet.perform_create (POST /api/projects/): no broadcast
CreateProject(r, U) ==
    /\ req[r].pc = "idle"
    /\ NextProjectId \in ProjectIds
    /\ \E u \in U :
         LET p == NextProjectId
             inst == NewInstance(u, DefaultFields)
         IN  /\ projects' = [q \in DOMAIN projects \cup {p} |->
                               IF q = p THEN SavedRow(inst, p, now) ELSE projects[q]]
             /\ etags_seen' = etags_seen \cup {projects'[p].etag}
             /\ ledger' = Append(ledger, Entry(p, "created", u, r, NoChanges))
             /\ req' = [req EXCEPT ![r] = Saved(r, "create", u, p, 201, now)]
    /\ now' = now + 1
    /\ UNCHANGED <<team, groups, sess, inbox, txn, milestones, tasks>>

\* ProjectViewSet.soft_delete
SoftDelete(r, U) ==
    /\ req[r].pc = "idle"
    /\ \E u \in U, p \in ProjectIds :
         IF p \notin get_queryset(u)
         THEN /\ req' = [req EXCEPT ![r] = Done(r, "soft_delete", u, p, 404)]
              /\ UNCHANGED <<now, projects, etags_seen, ledger, inbox>>
         ELSE IF ~IsProjectOwner(u, p)
         THEN /\ req' = [req EXCEPT ![r] = Done(r, "soft_delete", u, p, 403)]
              /\ UNCHANGED <<now, projects, etags_seen, ledger, inbox>>
         ELSE /\ ~Locked(p)
              /\ projects' = [projects EXCEPT ![p] =
                     SavedRow([projects[p] EXCEPT !.deleted = TRUE], p, now)]
              /\ etags_seen' = etags_seen \cup {projects'[p].etag}
              /\ now' = now + 1
              /\ ledger' = Append(ledger, Entry(p, "updated", u, r, NoChanges))
              /\ inbox' = notify_project_team(
                              broadcast_project_update(inbox, p, "deleted", r),
                              p, "project_deleted", r, u)
              /\ req' = [req EXCEPT ![r] = Saved(r, "soft_delete", u, p, 200, now)]
    /\ UNCHANGED <<team, groups, sess, txn, milestones, tasks>>

\* ProjectViewSet.restore
Restore(r, U) ==
    /\ req[r].pc = "idle"
    /\ \E u \in U, p \in ProjectIds :
         IF p \notin DOMAIN projects
         THEN /\ req' = [req EXCEPT ![r] = Done(r, "restore", u, p, 404)]
              /\ UNCHANGED <<now, projects, etags_seen, ledger, inbox>>
         ELSE IF ~IsProjectOwner(u, p)
         THEN /\ req' = [req EXCEPT ![r] = Done(r, "restore", u, p, 403)]
              /\ UNCHANGED <<now, projects, etags_seen, ledger, inbox>>
         ELSE IF ~projects[p].deleted
         THEN /\ req' = [req EXCEPT ![r] = Done(r, "restore", u, p, 400)]
              /\ UNCHANGED <<now, projects, etags_seen, ledger, inbox>>
         ELSE /\ ~Locked(p)
              /\ projects' = [projects EXCEPT ![p] =
                     SavedRow([projects[p] EXCEPT !.deleted = FALSE], p, now)]
              /\ etags_seen' = etags_seen \cup {projects'[p].etag}
              /\ now' = now + 1
              /\ ledger' = Append(ledger, Entry(p, "restored", u, r, NoChanges))
              /\ inbox' = notify_project_team(
                              broadcast_project_update(inbox, p, "restored", r),
                              p, "project_restored", r, u)
              /\ req' = [req EXCEPT ![r] = Saved(r, "restore", u, p, 200, now)]
    /\ UNCHANGED <<team, groups, sess, txn, milestones, tasks>>

\* ProjectViewSet.empty_trash: Project.objects.only_deleted().delete() is a
\* hard delete, and the rows that point to a deleted project with
\* on_delete=CASCADE (TeamMember, Milestone, Activity, Task) go with it
EmptyTrash(r, U) ==
    /\ req[r].pc = "idle"
    /\ \E u \in U :
         IF u \notin Superusers
         THEN /\ req' = [req EXCEPT ![r] = Done(r, "empty_trash", u, 0, 403)]
              /\ UNCHANGED <<projects, team, ledger, milestones, tasks>>
         ELSE LET trash == {p \in DOMAIN projects : projects[p].deleted}
              IN  /\ \A p \in trash : ~Locked(p)
                  /\ projects' = [p \in DOMAIN projects \ trash |-> projects[p]]
                  /\ team' = {m \in team : m.project \notin trash}
                  /\ milestones' = [m \in {x \in DOMAIN milestones :
                                             milestones[x].project \notin trash}
                                      |-> milestones[m]]
                  /\ tasks' = [t \in {x \in DOMAIN tasks :
                                        tasks[x].project \notin trash}
                                 |-> tasks[t]]
                  /\ ledger' = SelectSeq(ledger, LAMBDA e : e.project \notin trash)
                  /\ req' = [req EXCEPT ![r] =
                                [Done(r, "empty_trash", u, 0, 200) EXCEPT !.pids = trash]]
    /\ UNCHANGED <<now, etags_seen, groups, sess, inbox, txn>>

\* ProjectViewSet.changelog: get_object (queryset, then
\* CanViewProjectDetails), then a read of the project's activities
Changelog(r, U) ==
    /\ req[r].pc = "idle"
    /\ \E u \in U, p \in ProjectIds :
         req' = [req EXCEPT ![r] = Done(r, "changelog", u, p, RetrieveStatus(u, p))]
    /\ UNCHANGED <<now, projects, team, ledger, etags_seen, groups, sess, inbox, txn, milestones, tasks>>

\* A caller of channels_broadcast.broadcast_task_change (with one of the
\* event types TaskUpdateConsumer has a method for) or of
\* broadcast_comment_change; r is the frame of the caller
CallBroadcast(r) ==
    /\ req[r].pc = "idle"
    /\ \E p \in ProjectIds :
         \/ \E e \in Handlers("tasks") :
              /\ inbox' = broadcast_task_change(inbox, p, e, r)
              /\ req' = [req EXCEPT ![r] = Done(r, "broadcast_task_change", "none", p, 0)]
         \/ /\ inbox' = broadcast_comment_change(inbox, p, "created", r)
            /\ req' = [req EXCEPT ![r] = Done(r, "broadcast_comment_change", "none", p, 0)]
    /\ UNCHANGED <<now, projects, team, ledger, etags_seen, groups, sess, txn, milestones, tasks>>

Roles == {"lead", "developer"}

\* ProjectViewSet.add_team_member; a second membership of the same user
\* violates unique_together and the insert fails (500)
AddTeamMember(r, U) ==
    /\ req[r].pc = "idle"
    /\ \E u \in U, p \in ProjectIds, m \in Users, role \in Roles :
         IF p \notin get_queryset(u)
         THEN /\ req' = [req EXCEPT ![r] = Done(r, "add_team_member", u, p, 404)]
              /\ UNCHANGED <<team, ledger, inbox>>
         ELSE IF ~IsProjectOwner(u, p)
         THEN /\ req' = [req EXCEPT ![r] = Done(r, "add_team_member", u, p, 403)]
              /\ UNCHANGED <<team, ledger, inbox>>
         ELSE IF IsMember(p, m)
         THEN /\ req' = [req EXCEPT ![r] = Done(r, "add_team_member", u, p, 500)]
              /\ UNCHANGED <<team, ledger, inbox>>
         ELSE /\ team' = team \cup {[project |-> p, user |-> m, role |-> role]}
              /\ ledger' = Append(ledger, Entry(p, "team_added", u, r, NoChanges))
              /\ inbox' = notify_project_team(
                              broadcast_team_member_change(inbox, p, "added", r),
                              p, "team_member_added", r, u)
              /\ req' = [req EXCEPT ![r] = Done(r, "add_team_member", u, p, 201)]
    /\ UNCHANGED <<now, projects, etags_seen, groups, sess, txn, milestones, tasks>>

\* ProjectViewSet.remove_team_member
RemoveTeamMember(r, U) ==
    /\ req[r].pc = "idle"
    /\ \E u \in U, p \in ProjectIds, m \in Users :
         IF p \notin get_queryset(u)
         THEN /\ req' = [req EXCEPT ![r] = Done(r, "remove_team_member", u, p, 404)]
              /\ UNCHANGED <<team, ledger, inbox>>
         ELSE IF ~IsProjectOwner(u, p)
         THEN /\ req' = [req EXCEPT ![r] = Done(r, "remove_team_member", u, p, 403)]
              /\ UNCHANGED <<team, ledger, inbox>>
         ELSE IF ~IsMember(p, m)
         THEN /\ req' = [req EXCEPT ![r] = Done(r, "remove_team_member", u, p, 404)]
              /\ UNCHANGED <<team, ledger, inbox>>
         ELSE /\ team' = {x \in team : ~(x.project = p /\ x.user = m)}
              /\ ledger' = Append(ledger, Entry(p, "team_removed", u, r, NoChanges))
              /\ inbox' = notify_project_team(
                              broadcast_team_member_change(inbox, p, "removed", r),
                              p, "team_member_removed", r, u)
              /\ req' = [req EXCEPT ![r] = Done(r, "remove_team_member", u, p, 200)]
    /\ UNCHANGED <<now, projects, etags_seen, groups, sess, txn, milestones, tasks>>

\* ProjectViewSet.update_team_member
UpdateTeamMember(r, U) ==
    /\ req[r].pc = "idle"
    /\ \E u \in U, p \in ProjectIds, m \in Users, role \in Roles :
         IF p \notin get_queryset(u)
         THEN /\ req' = [req EXCEPT ![r] = Done(r, "update_team_member", u, p, 404)]
              /\ UNCHANGED <<team, ledger, inbox>>
         ELSE IF ~IsProjectOwner(u, p)
         THEN /\ req' = [req EXCEPT ![r] = Done(r, "update_team_member", u, p, 403)]
              /\ UNCHANGED <<team, ledger, inbox>>
         ELSE IF ~IsMember(p, m)
         THEN /\ req' = [req EXCEPT ![r] = Done(r, "update_team_member", u, p, 404)]
              /\ UNCHANGED <<team, ledger, inbox>>
         ELSE /\ team' = {x \in team : ~(x.project = p /\ x.user = m)}
                           \cup {[project |-> p, user |-> m, role |-> role]}
              /\ ledger' = Append(ledger, Entry(p, "team_updated", u, r, NoChanges))
              /\ inbox' = notify_project_team(
                              broadcast_team_member_change(inbox, p, "updated", r),
                              p, "team_member_updated", r, u)
              /\ req' = [req EXCEPT ![r] = Done(r, "update_team_member", u, p, 200)]
    /\ UNCHANGED <<now, projects, etags_seen, groups, sess, txn, milestones, tasks>>

(***************************************************************************)
(* REST: the two bulk endpoints.                                           *)
(***************************************************************************)
BulkPayloads == { [status |-> "archived"], [health |-> "at_risk"], <<>> }

\* A filter that forgets owner=request.user
OwnedByAnyone(u, ids) ==
    {p \in ids : p \in DOMAIN projects /\ ~projects[p].deleted}

\* The rows Project.objects.filter(id__in=project_ids, owner=request.user)
\* selects (the default manager hides soft-deleted rows)
OwnedBy(u, ids) ==
    {p \in ids : p \in DOMAIN projects /\ ~projects[p].deleted
                  /\ projects[p].owner = u}

\* Position of p when the rows are iterated in Meta.ordering, -updated_at
Position(rows, p) ==
    1 + Cardinality({q \in DOMAIN rows : rows[q].updated_at > rows[p].updated_at})

\* ProjectViewSet.bulk_update, lines 468-494: validation, then inside
\* transaction.atomic the ownership count and the etag loop
BulkBegin(r, U) ==
    /\ req[r].pc = "idle"
    /\ \E u \in U, ids \in (SUBSET ProjectIds) \ {{}}, e \in EtagInputs,
          d \in BulkPayloads :
         LET fr == [Idle EXCEPT !.op = "bulk_update", !.user = u, !.pids = ids,
                                !.etag = e, !.data = d]
             owned == OwnedBy(u, ids)
         IN  req' = [req EXCEPT ![r] =
                 IF e = NoEtag
                 THEN Answered(fr, 500)
                 ELSE IF Cardinality(owned) # Cardinality(ids)
                 THEN Answered(fr, 403)
                 ELSE IF \E p \in owned : projects[p].etag # e
                 THEN Answered(fr, 409)
                 ELSE [fr EXCEPT !.pc = "bulk_write",
                                 !.insts = [p \in owned |-> projects[p]]]]
    /\ UNCHANGED <<now, projects, team, ledger, etags_seen, groups, sess, inbox, txn, milestones, tasks>>

\* ProjectViewSet.bulk_update, lines 496-518, all inside the open block:
\* QuerySet.update of status / health (which drops the result cache, so the
\* rows are read again), save() of every project in the order the rows were
\* read (-updated_at), and the one Activity row on projects.first(), the
\* first row of that result
BulkWrite(r) ==
    /\ req[r].pc = "bulk_write"
    /\ \A p \in req[r].pids : ~Locked(p)
    /\ LET d == req[r].data
           ids == IF d = <<>> THEN req[r].pids ELSE OwnedBy(req[r].user, req[r].pids)
           insts == [p \in ids |->
                       IF d = <<>> THEN req[r].insts[p]
                       ELSE [projects[p] EXCEPT !.f = Overlay(@, d)]]
           rows == [p \in ids |-> SavedRow(insts[p], p, now + Position(insts, p) - 1)]
           first == {p \in ids : Position(insts, p) = 1}
       IN  /\ txn' = [txn EXCEPT ![r] =
                        [rows |-> rows,
                         entries |-> IF ids = {} THEN <<>>
                                     ELSE <<Entry(CHOOSE p \in first : TRUE,
                                                  "bulk_updated", req[r].user, r,
                                                  NoChanges)>>]]
           /\ now' = now + Cardinality(ids)
           /\ req' = [req EXCEPT ![r].pc = IF ids = {} THEN "bulk_abort"
                                           ELSE "bulk_broadcast",
                                 ![r].pids = ids,
                                 ![r].insts = insts]
    /\ UNCHANGED <<projects, team, ledger, etags_seen, groups, sess, inbox, milestones, tasks>>

\* for project in projects: broadcast_project_update(...), in the order the
\* rows were read
RECURSIVE BroadcastAll(_, _, _, _)
BroadcastAll(box, rows, ids, r) ==
    IF ids = {} THEN box
    ELSE LET p == CHOOSE q \in ids :
                     \A x \in ids : rows[x].updated_at <= rows[q].updated_at
         IN  BroadcastAll(broadcast_project_update(box, p, "bulk_updated", r),
                          rows, ids \ {p}, r)

\* ProjectViewSet.bulk_update, lines 520-526: the broadcasts, still inside
\* the open transaction.atomic block
BulkBroadcast(r) ==
    /\ req[r].pc = "bulk_broadcast"
    /\ inbox' = BroadcastAll(inbox, req[r].insts, req[r].pids, r)
    /\ req' = [req EXCEPT ![r].pc = "bulk_commit"]
    /\ UNCHANGED <<now, projects, team, ledger, etags_seen, groups, sess, txn, milestones, tasks>>

\* The updated_at of the row a block saved last
LastWrite(rows) ==
    CHOOSE t \in {rows[p].updated_at : p \in DOMAIN rows} :
        \A q \in DOMAIN rows : rows[q].updated_at <= t

\* ProjectViewSet.bulk_update, lines 528-534: the response is built and the
\* block exits, which commits
BulkCommit(r) ==
    /\ req[r].pc = "bulk_commit"
    /\ projects' = [p \in DOMAIN projects |->
                      IF p \in DOMAIN txn[r].rows THEN txn[r].rows[p] ELSE projects[p]]
    /\ ledger' = ledger \o txn[r].entries
    /\ etags_seen' = etags_seen \cup {txn[r].rows[p].etag : p \in DOMAIN txn[r].rows}
    /\ txn' = [txn EXCEPT ![r] = NoTxn]
    /\ req' = [req EXCEPT ![r] = [Answered(req[r], 200) EXCEPT !.at = LastWrite(txn[r].rows)]]
    /\ UNCHANGED <<now, team, groups, sess, inbox, milestones, tasks>>

\* ProjectViewSet.bulk_update, lines 536-539: an exception inside the block
\* (a query of the response, the commit itself, the Activity insert without
\* a project) rolls the block back and the handler answers 500
BulkAbort(r) ==
    /\ req[r].pc \in {"bulk_commit", "bulk_abort"}
    /\ txn' = [txn EXCEPT ![r] = NoTxn]
    /\ Respond(r, 500)
    /\ UNCHANGED <<now, projects, team, ledger, etags_seen, groups, sess, inbox, milestones, tasks>>

\* BulkOperationViewSet.update_status -> _perform_bulk_operation: one
\* QuerySet.update inside @transaction.atomic; no save(), no Activity row,
\* no broadcast.  S is the set of values clients send as changes.status;
\* the value goes to the UPDATE as it was sent, no serializer sees it
perform_bulk_operation(r, U, S) ==
    /\ req[r].pc = "idle"
    /\ \E u \in U, ids \in SUBSET ProjectIds, st \in S :
         LET fr == [Idle EXCEPT !.pc = "done", !.op = "bulk_status", !.user = u,
                                !.pids = ids]
             owned == OwnedBy(u, ids)
         IN  IF ids = {}
             THEN /\ req' = [req EXCEPT ![r] = [fr EXCEPT !.resp = 400]]
                  /\ projects' = projects
             ELSE IF Cardinality(owned) # Cardinality(ids)
             THEN /\ req' = [req EXCEPT ![r] = [fr EXCEPT !.resp = 403]]
                  /\ projects' = projects
             ELSE /\ \A p \in ids : ~Locked(p)
                  /\ projects' = [p \in DOMAIN projects |->
                        IF p \in ids THEN [projects[p] EXCEPT !.f.status = st]
                        ELSE projects[p]]
                  /\ req' = [req EXCEPT ![r] = [fr EXCEPT !.resp = 200]]
    /\ UNCHANGED <<now, team, ledger, etags_seen, groups, sess, inbox, txn, milestones, tasks>>

\* POST /api/bulk/update_status/ with a status the model knows
BulkUpdateStatus(r, U) == perform_bulk_operation(r, U, {"archived", "on_hold"})

(***************************************************************************)
(* REST: milestones (MilestoneViewSet) and tasks (TaskViewSet).            *)
(* projects/urls.py registers no route for TaskViewSet; its handlers are   *)
(* modelled as the class defines them.                                     *)
(***************************************************************************)
MilestoneIds == {1}
TaskIds == {1}

\* MilestoneViewSet.get_queryset: milestones of projects the user owns or
\* is a member of (Project rows are joined, whatever their deleted_at)
MilestoneQueryset(u) ==
    {m \in DOMAIN milestones :
        LET p == milestones[m].project
        IN  projects[p].owner = u \/ IsMember(p, u)}

\* MilestoneViewSet.get_project: PermissionDenied unless the project exists
\* and the user owns it or can view it
MilestoneProjectAllowed(u, p) ==
    /\ p \in DOMAIN projects
    /\ ~projects[p].deleted
    /\ (projects[p].owner = u \/ can_view_project_details(u, p))

\* signals.log_milestone_update, the post_save receiver of Milestone
log_milestone_update(p, created, r) ==
    Entry(p, IF created THEN "milestone_added" ELSE "milestone_updated",
          NoneVal, r, NoChanges)

\* MilestoneViewSet.perform_create: serializer.save fires post_save, then
\* the view writes its own Activity row
MilestoneCreate(r, U) ==
    /\ req[r].pc = "idle"
    /\ Cardinality(DOMAIN milestones) + 1 \in MilestoneIds
    /\ \E u \in U, p \in ProjectIds :
         IF ~MilestoneProjectAllowed(u, p)
         THEN /\ req' = [req EXCEPT ![r] = Done(r, "milestone_create", u, p, 403)]
              /\ UNCHANGED <<now, milestones, ledger, inbox>>
         ELSE LET m == Cardinality(DOMAIN milestones) + 1
              IN  /\ milestones' = [x \in DOMAIN milestones \cup {m} |->
                         IF x = m THEN [project |-> p, progress |-> 0]
                         ELSE milestones[x]]
                  /\ now' = now + 1
                  /\ ledger' = ledger \o
                         << log_milestone_update(p, TRUE, r),
                            Entry(p, "milestone_added", u, r, NoChanges) >>
                  /\ inbox' = notify_project_team(
                                  broadcast_milestone_change(inbox, p, "created", r),
                                  p, "milestone_created", r, u)
                  /\ req' = [req EXCEPT ![r] = Done(r, "milestone_create", u, p, 201)]
    /\ UNCHANGED <<projects, team, etags_seen, groups, sess, txn, tasks>>

\* MilestoneViewSet.perform_update (PATCH progress) and
\* MilestoneViewSet.complete (progress = 100): save fires post_save, then
\* the view writes its own Activity row
MilestoneUpdate(r, U) ==
    /\ req[r].pc = "idle"
    /\ \E u \in U, m \in MilestoneIds, op \in {"milestone_update", "milestone_complete"} :
         IF m \notin MilestoneQueryset(u)
         THEN /\ req' = [req EXCEPT ![r] = Done(r, op, u, 0, 404)]
              /\ UNCHANGED <<now, milestones, ledger, inbox>>
         ELSE LET p == milestones[m].project
              IN  /\ milestones' = [milestones EXCEPT ![m].progress =
                         IF op = "milestone_complete" THEN 100 ELSE 50]
                  /\ now' = now + 1
                  /\ ledger' = ledger \o
                         << log_milestone_update(p, FALSE, r),
                            Entry(p, IF op = "milestone_complete"
                                     THEN "milestone_completed"
                                     ELSE "progress_updated", u, r, NoChanges) >>
                  /\ inbox' = notify_project_team(
                                  broadcast_milestone_change(inbox, p,
                                      IF op = "milestone_complete" THEN "completed"
                                      ELSE "updated", r),
                                  p, IF op = "milestone_complete"
                                     THEN "milestone_completed"
                                     ELSE "milestone_updated", r, u)
                  /\ req' = [req EXCEPT ![r] = Done(r, op, u, p, 200)]
    /\ UNCHANGED <<projects, team, etags_seen, groups, sess, txn, tasks>>

\* MilestoneViewSet.perform_destroy: instance.delete() removes the row (no
\* post_save), then the view writes one Activity row
MilestoneDelete(r, U) ==
    /\ req[r].pc = "idle"
    /\ \E u \in U, m \in MilestoneIds :
         IF m \notin MilestoneQueryset(u)
         THEN /\ req' = [req EXCEPT ![r] = Done(r, "milestone_delete", u, 0, 404)]
              /\ UNCHANGED <<milestones, ledger, inbox>>
         ELSE LET p == milestones[m].project
              IN  /\ milestones' = [x \in DOMAIN milestones \ {m} |-> milestones[x]]
                  /\ ledger' = Append(ledger,
                                      Entry(p, "progress_updated", u, r, NoChanges))
                  /\ inbox' = notify_project_team(
                                  broadcast_milestone_change(inbox, p, "deleted", r),
                                  p, "milestone_deleted", r, u)
                  /\ req' = [req EXCEPT ![r] = Done(r, "milestone_delete", u, p, 204)]
    /\ UNCHANGED <<now, projects, team, etags_seen, groups, sess, txn, tasks>>

\* TaskViewSet.get_queryset: Task.objects hides soft-deleted tasks; a
\* superuser sees all, others the tasks of the live projects they can view
TaskQueryset(u) ==
    {t \in DOMAIN tasks :
        /\ ~tasks[t].deleted
        /\ \/ u \in Superusers
           \/ (~projects[tasks[t].project].deleted
               /\ can_view_project_details(u, tasks[t].project))}

TaskPayloads == { [status |-> "todo"], [title |-> "T"] }

\* The fields TaskViewSet.perform_update compares
TaskChangedFields(old, new) ==
    {k \in {"status", "priority", "assigned_to", "progress"} : old[k] # new[k]}

\* TaskViewSet.perform_update: an Activity row only if status, priority,
\* assignee or progress changed; no broadcast
TaskUpdate(r, U) ==
    /\ req[r].pc = "idle"
    /\ \E u \in U, t \in TaskIds, d \in TaskPayloads :
         IF t \notin TaskQueryset(u)
         THEN /\ req' = [req EXCEPT ![r] = Done(r, "task_update", u, 0, 404)]
              /\ UNCHANGED <<now, tasks, ledger>>
         ELSE LET old == tasks[t]
                  new == [k \in DOMAIN old |-> IF k \in DOMAIN d THEN d[k] ELSE old[k]]
                  changed == TaskChangedFields(old, new)
              IN  /\ tasks' = [tasks EXCEPT ![t] = new]
                  /\ now' = now + 1
                  /\ ledger' = IF changed # {}
                               THEN Append(ledger,
                                      [Entry(old.project, "task_updated", u, r, NoChanges)
                                         EXCEPT !.changed_fields = changed])
                               ELSE ledger
                  /\ req' = [req EXCEPT ![r] = Done(r, "task_update", u, old.project, 200)]
    /\ UNCHANGED <<projects, team, etags_seen, groups, sess, inbox, txn, milestones>>

\* TaskViewSet.perform_destroy: soft delete and one Activity row
TaskDelete(r, U) ==
    /\ req[r].pc = "idle"
    /\ \E u \in U, t \in TaskIds :
         IF t \notin TaskQueryset(u)
         THEN /\ req' = [req EXCEPT ![r] = Done(r, "task_delete", u, 0, 404)]
              /\ UNCHANGED <<now, tasks, ledger>>
         ELSE /\ tasks' = [tasks EXCEPT ![t].deleted = TRUE]
              /\ now' = now + 1
              /\ ledger' = Append(ledger,
                     Entry(tasks[t].project, "task_deleted", u, r, NoChanges))
              /\ req' = [req EXCEPT ![r] =
                            Done(r, "task_delete", u, tasks[t].project, 204)]
    /\ UNCHANGED <<projects, team, etags_seen, groups, sess, inbox, txn, milestones>>

(***************************************************************************)
(* Initial state: the database after ann created project 1 through         *)
(* perform_create and added bob to its team through add_team_member (as    *)
(* lead or as developer), with one task on the project; no connection is   *)
(* open and no request is in flight.                                       *)
(***************************************************************************)
Init ==
    /\ now = 3
    /\ projects = (1 :> SavedRow(NewInstance("ann", DefaultFields), 1, 1))
    /\ \E role \in Roles : team = {[project |-> 1, user |-> "bob", role |-> role]}
    /\ ledger = << Entry(1, "created", "ann", 0, NoChanges),
                   Entry(1, "team_added", "ann", 0, NoChanges) >>
    /\ etags_seen = {generate_etag(0, 0)}
    /\ req = [r \in Requests |-> Idle]
    /\ groups = {}
    /\ sess = [s \in Sessions |-> NewSession]
    /\ inbox = [s \in Sessions |-> <<>>]
    /\ txn = [r \in Requests |-> NoTxn]
    /\ milestones = <<>>
    /\ tasks = (1 :> [project |-> 1, title |-> "t", status |-> "backlog",
                      priority |-> "medium", assigned_to |-> NoneVal,
                      progress |-> 0, deleted |-> FALSE])

(***************************************************************************)
(* Specifications.  U is the set of users that send REST requests.         *)
(***************************************************************************)
ProjectUpdate(r, U) ==
    \/ UpdateLoad(r, U)
    \/ UpdateCheck(r)
    \/ UpdateSave(r)
    \/ UpdateLog(r)
    \/ UpdateBroadcast(r)
    \/ UpdateNotify(r)

BulkUpdate(r, U) ==
    \/ BulkBegin(r, U)
    \/ BulkWrite(r)
    \/ BulkBroadcast(r)
    \/ BulkCommit(r)
    \/ BulkAbort(r)

ValidCredentials(U) == [kind : {"valid"}, user : U]

Writers == {"ann", "bob"}
Owner == {"ann"}
Watchers == {"bob"}
Watched == {1}

\* The write path with its fan-out: concurrent requests on the project of
\* the fixture, and notification sessions that join and leave its room
Next ==
    \/ \E r \in Requests : ProjectUpdate(r, Owner)
    \/ \E r \in Requests : BulkUpdate(r, Owner)
    \/ \E r \in Requests : SoftDelete(r, Owner)
    \/ \E r \in Requests : Restore(r, Owner)
    \/ \E r \in Requests : BulkUpdateStatus(r, Owner)
    \/ \E s \in Sessions : Connect(s, ValidCredentials(Watchers), {"notification"})
    \/ \E s \in Sessions : Receive(s, Watched)

Spec == Init /\ [][Next]_vars

\* The REST write path of projects alone: the owner and a team member
NextRest ==
    \/ \E r \in Requests : ProjectUpdate(r, Writers)
    \/ \E r \in Requests : BulkUpdate(r, Writers)
    \/ \E r \in Requests : CreateProject(r, Writers)
    \/ \E r \in Requests : SoftDelete(r, Writers)
    \/ \E r \in Requests : Restore(r, Writers)
    \/ \E r \in Requests : BulkUpdateStatus(r, Writers)

SpecRest == Init /\ [][NextRest]_vars

\* The update path with its failures: the ledger insert or a send to the
\* project room fails while notification sessions are in the room
NextFault ==
    \/ \E r \in Requests : ProjectUpdate(r, Owner)
    \/ \E r \in Requests : UpdateLogFails(r)
    \/ \E r \in Requests : UpdateBroadcastFails(r)
    \/ \E r \in Requests : UpdateNotifyFails(r)
    \/ \E s \in Sessions : Connect(s, ValidCredentials(Watchers), {"notification"})
    \/ \E s \in Sessions : Receive(s, Watched)

SpecFault == Init /\ [][NextFault]_vars

\* The trash: any user deletes, restores and empties it while the owner
\* and a member go on writing to the project
NextTrash ==
    \/ \E r \in Requests : SoftDelete(r, Users)
    \/ \E r \in Requests : Restore(r, Users)
    \/ \E r \in Requests : EmptyTrash(r, Users)
    \/ \E r \in Requests : AddTeamMember(r, Writers)
    \/ \E r \in Requests : MilestoneCreate(r, Writers)

SpecTrash == Init /\ [][NextTrash]_vars

\* Requests of every user, related to the project or not, while the owner
\* changes who is on the team
NextAccess ==
    \/ \E r \in Requests : ProjectUpdate(r, Users)
    \/ \E r \in Requests : SoftDelete(r, Users)
    \/ \E r \in Requests : Changelog(r, Users)
    \/ \E r \in Requests : AddTeamMember(r, Owner)
    \/ \E r \in Requests : RemoveTeamMember(r, Owner)

SpecAccess == Init /\ [][NextAccess]_vars

\* The broadcast functions and the consumers that handle what they send:
\* sessions of the owner and a member on the notification and the task
\* address, and callers of the task and comment broadcasts
NextBroadcast ==
    \/ \E s \in Sessions : Connect(s, ValidCredentials(Writers), {"notification", "tasks"})
    \/ \E s \in Sessions : Receive(s, ProjectIds)
    \/ \E s \in Sessions : Deliver(s)
    \/ \E r \in Requests : CallBroadcast(r)
    \/ \E r \in Requests : AddTeamMember(r, Owner)

SpecBroadcast == Init /\ [][NextBroadcast]_vars

\* What clients send as a status to the bulk status endpoint: a value of
\* STATUS_CHOICES and one that is not
StatusInputs == {"archived", "bogus"}

\* The write paths of the project fields, with values inside and outside
\* the fields' domains
NextDomain ==
    \/ \E r \in Requests : ProjectUpdate(r, Writers)
    \/ \E r \in Requests : BulkUpdate(r, Writers)
    \/ \E r \in Requests : CreateProject(r, Writers)
    \/ \E r \in Requests : perform_bulk_operation(r, Writers, StatusInputs)

SpecDomain == Init /\ [][NextDomain]_vars

\* Every mutating operation, for the ledger
NextLedger ==
    \/ NextRest
    \/ \E r \in Requests : AddTeamMember(r, Writers)
    \/ \E r \in Requests : RemoveTeamMember(r, Writers)
    \/ \E r \in Requests : UpdateTeamMember(r, Writers)
    \/ \E r \in Requests : MilestoneCreate(r, Writers)
    \/ \E r \in Requests : MilestoneUpdate(r, Writers)
    \/ \E r \in Requests : MilestoneDelete(r, Writers)
    \/ \E r \in Requests : TaskUpdate(r, Writers)
    \/ \E r \in Requests : TaskDelete(r, Writers)

SpecLedger == Init /\ [][NextLedger]_vars

\* The owner-only operations, called by the owner, a team member, an
\* unrelated user and a superuser
NextOwner ==
    \/ \E r \in Requests : SoftDelete(r, Users)
    \/ \E r \in Requests : Restore(r, Users)
    \/ \E r \in Requests : AddTeamMember(r, Users)
    \/ \E r \in Requests : RemoveTeamMember(r, Users)
    \/ \E r \in Requests : UpdateTeamMember(r, Users)
    \/ \E r \in Requests : BulkUpdate(r, Users)
    \/ \E r \in Requests : BulkUpdateStatus(r, Users)

SpecOwner == Init /\ [][NextOwner]_vars

\* The connection endpoints: any credential on any routed address, any
\* subscription, while the owner deletes and restores the project and
\* changes its team
NextConn ==
    \/ \E s \in Sessions : Connect(s, Credentials, Consumers)
    \/ \E s \in Sessions : Receive(s, ProjectIds)
    \/ \E s \in Sessions : Disconnect(s)
    \/ \E s \in Sessions : Deliver(s)
    \/ \E r \in Requests : SoftDelete(r, Owner)
    \/ \E r \in Requests : Restore(r, Owner)
    \/ \E r \in Requests : RemoveTeamMember(r, Owner)

SpecConn == Init /\ [][NextConn]_vars

(***************************************************************************)
(* Properties.                                                             *)
(***************************************************************************)
Succeeded(r) == req[r].pc = "done" /\ req[r].resp \in {200, 201, 204}

\* C1: a project update that carries an etag different from the project's
\* persisted etag is answered 409 at the etag test and writes nothing: the
\* step leaves the Project table and the ledger as they were, and the
\* request ends without having saved a row.
C1_StaleEtagRejected ==
    [][\A r \in Requests :
         ( /\ req[r].pc = "check"
           /\ req'[r] # req[r]
           /\ req[r].pid \in get_queryset(req[r].user)
           /\ CanEditProject(req[r].user, req[r].pid)
           /\ req[r].etag # NoEtag
           /\ req[r].etag # projects[req[r].pid].etag )
         => ( /\ req'[r].pc = "done"
              /\ req'[r].resp = 409
              /\ req'[r].at = 0
              /\ projects' = projects
              /\ ledger' = ledger )]_vars

\* C1 (witness): an update that sent the etag the project had when it was
\* created, after another request had saved the project, was answered 409
C1_Witness ==
    \E r \in Requests :
        /\ req[r].pc = "done"
        /\ req[r].op = "update"
        /\ req[r].resp = 409
        /\ req[r].etag = generate_etag(0, 0)
        /\ projects[req[r].pid].etag # generate_etag(0, 0)

\* C2: of two update requests on the same project that carry the same etag,
\* at most one is applied (saves the row); both are never applied.
C2_AtMostOneApplied ==
    \A a, b \in Requests :
        ( /\ a # b
          /\ req[a].op = "update" /\ req[b].op = "update"
          /\ req[a].pid = req[b].pid
          /\ req[a].etag # NoEtag
          /\ req[a].etag = req[b].etag )
        => ~(req[a].at # 0 /\ req[b].at # 0)

ProjectGroupKinds == {"project", "project_tasks", "project_updates"}

\* C3: a session joins a project-scoped group (project_<id>,
\* project_tasks_<id>, project_updates_<id>) only in a step in which its
\* principal can view that project.
C3_JoinOnlyIfCanView ==
    [][\A s \in Sessions, p \in ProjectIds, k \in ProjectGroupKinds :
         ( /\ <<Group(k, p), s>> \in groups'
           /\ <<Group(k, p), s>> \notin groups )
         => ( /\ p \in DOMAIN projects
              /\ sess'[s].user \in Users
              /\ can_view_project_details(sess'[s].user, p) )]_vars

\* C4: on every routed address a connection whose credential is missing,
\* malformed, expired, wrongly signed or names an unknown user is never
\* accepted (it is rejected, or connect raised), is no authenticated user,
\* is in no group and is sent nothing.
C4_InvalidCredentialRejected ==
    \A s \in Sessions :
        sess[s].cred \in InvalidKinds
        => ( /\ sess[s].state \in {"rejected", "crashed"}
             /\ sess[s].user \notin Users
             /\ (sess[s].consumer # "project" => sess[s].user = "anonymous")
             /\ \A m \in groups : m[2] # s
             /\ Received(s) = <<>> )

\* C4 (witness): a connection with an invalid credential was rejected on
\* the notification address and one on the task address, while a project
\* room has a member
C4_Witness ==
    /\ \E s \in Sessions :
          /\ sess[s].cred \in InvalidKinds
          /\ sess[s].consumer \in {"notification", "tasks"}
          /\ sess[s].state = "rejected"
    /\ \E t \in Sessions, p \in ProjectIds :
          /\ sess[t].state = "open"
          /\ <<Group("project", p), t>> \in groups

LedgerOps ==
    {"create", "update", "soft_delete", "restore",
     "add_team_member", "update_team_member", "remove_team_member",
     "milestone_create", "milestone_update", "milestone_complete",
     "milestone_delete", "task_update", "task_delete"}

EntriesOf(r) == {i \in DOMAIN ledger : ledger[i].req = r}

\* C5: every successful mutating operation (project create, update, soft
\* delete, restore; team member add, update, remove; milestone create,
\* update, complete, delete; task update, delete) has appended exactly one
\* ledger entry.
C5_ExactlyOneEntry ==
    \A r \in Requests :
        (Succeeded(r) /\ req[r].op \in LedgerOps)
        => Cardinality(EntriesOf(r)) = 1

\* The events of request r about project p on the channel of session s
EventsOf(s, r, p) ==
    {i \in DOMAIN Received(s) :
        Received(s)[i].req = r /\ Received(s)[i].project_id = p}

\* C6: a mutation of a project results in one event per session of the
\* project's group: no session receives two events for the same mutation.
C6_OneEventPerMutation ==
    \A s \in Sessions, r \in Requests, p \in ProjectIds :
        Cardinality(EventsOf(s, r, p)) <= 1

\* C7: the events of one project are received by each session in the order
\* in which the writes that triggered them were committed.
C7_CommitOrder ==
    \A s \in Sessions :
        \A i, j \in DOMAIN Received(s) :
            LET a == Received(s)[i]
                b == Received(s)[j]
            IN  ( /\ i < j
                  /\ a.req # b.req
                  /\ a.project_id = b.project_id
                  /\ req[a.req].at # 0
                  /\ req[b.req].at # 0 )
                => req[a.req].at < req[b.req].at

\* C8: no session has received an event of a change whose transaction is
\* still open or was rolled back.
C8_SentAfterCommit ==
    \A s \in Sessions :
        \A i \in DOMAIN Received(s) :
            LET e == Received(s)[i]
            IN  /\ e.project_id \notin DOMAIN txn[e.req].rows
                /\ ~(req[e.req].pc = "done" /\ req[e.req].resp = 500)

\* A project row without its etag
RowBody(row) == [row EXCEPT !.etag = NoEtag]

\* C9: in every step the persisted etag of a project changes if and only
\* if its persisted row changes.
C9_EtagIffRowChanges ==
    [][\A p \in DOMAIN projects :
         (projects'[p].etag # projects[p].etag)
         <=> (RowBody(projects'[p]) # RowBody(projects[p]))]_vars

\* C10: a step that changes the persisted row of a project increases its
\* persisted version by exactly 1, and no other step changes the version.
C10_VersionIncrements ==
    [][\A p \in DOMAIN projects :
         projects'[p].version =
             IF projects'[p] # projects[p]
             THEN projects[p].version + 1
             ELSE projects[p].version]_vars

\* C11: a session that has disconnected is a member of no group: neither
\* of its user group nor of any project group it joined.
C11_DisconnectLeavesAllGroups ==
    \A s \in Sessions :
        sess[s].state = "closed" => \A m \in groups : m[2] # s

\* C12: for every user and every project, in every state of ownership,
\* membership and role, the edit check grants only what the view check
\* grants: can_edit implies can_view.
C12_EditImpliesView ==
    \A u \in Users, p \in DOMAIN projects :
        CanEditProject(u, p) => can_view_project_details(u, p)

\* C12 (witness): a user who was added to the team as lead may edit, while
\* another member may view and not edit
C12_Witness ==
    \E p \in DOMAIN projects :
        /\ IsMember(p, "eve") /\ RoleOf(p, "eve") = "lead"
        /\ CanEditProject("eve", p)
        /\ \E v \in Users :
              can_view_project_details(v, p) /\ ~CanEditProject(v, p)

\* C13: for every user and every project, soft-deleted ones included, the
\* access check of the task-updates connection grants exactly when a REST
\* retrieve of the project by that user answers 200, and a task-updates
\* connection of an authenticated user is accepted exactly in that case.
C13_ConnectIffRetrieve ==
    /\ [](\A u \in Users, p \in ProjectIds :
            verify_project_access(u, p) <=> (RetrieveStatus(u, p) = 200))
    /\ [][\A s \in Sessions :
            ( /\ sess[s].state = "new"
              /\ sess'[s].consumer = "tasks"
              /\ sess'[s].user \in Users )
            => ( (sess'[s].state = "open")
                 <=> (RetrieveStatus(sess'[s].user, sess'[s].project) = 200) )]_vars

\* C13 (witness): the owner's task-updates connection to the soft-deleted
\* project was refused while a connection of another session is open
C13_Witness ==
    /\ \E s \in Sessions :
          /\ sess[s].consumer = "tasks"
          /\ sess[s].user = "ann"
          /\ sess[s].project = 1
          /\ sess[s].state = "rejected"
    /\ \E t \in Sessions :
          sess[t].consumer = "tasks" /\ sess[t].state = "open"

SingleOwnerOps == {"soft_delete", "restore", "add_team_member",
                   "remove_team_member", "update_team_member"}
BulkOps == {"bulk_update", "bulk_status"}

\* The step in which request r is received, and how its caller fares
Starts(r) == req[r].pc = "idle" /\ req'[r].pc # "idle"
Granted(r) == req'[r].resp \in {0, 200, 201, 204}
Forbidden(r) == req'[r].resp = 403
Targets(r) == IF req'[r].op \in BulkOps THEN req'[r].pids ELSE {req'[r].pid}
OwnerOrAdmin(u, p) ==
    p \in DOMAIN projects /\ (projects[p].owner = u \/ u \in Superusers)

\* C14 (as stated): soft delete, restore, team-membership management and
\* the bulk operations are granted only to the owner or an admin of every
\* project they name, and are answered 403 only to a caller who is neither
\* for one of them.
C14_OwnerOrAdminExactly ==
    [][\A r \in Requests :
         (Starts(r) /\ req'[r].op \in SingleOwnerOps \cup BulkOps)
         => ( /\ Granted(r) =>
                   \A p \in Targets(r) : OwnerOrAdmin(req'[r].user, p)
              /\ Forbidden(r) =>
                   \E p \in Targets(r) : ~OwnerOrAdmin(req'[r].user, p) )]_vars

\* C14 (amended): soft delete, restore and team-membership management are
\* granted only to the owner or an admin and answered 403 only to others;
\* the bulk operations are granted only to a caller who owns every listed
\* project, and answered 403 only if a listed id is not a live project the
\* caller owns, admins included.
C14_OwnerOrAdminSingleOwnerBulk ==
    [][\A r \in Requests :
         /\ (Starts(r) /\ req'[r].op \in SingleOwnerOps)
            => ( /\ Granted(r) => OwnerOrAdmin(req'[r].user, req'[r].pid)
                 /\ Forbidden(r) => ~OwnerOrAdmin(req'[r].user, req'[r].pid) )
         /\ (Starts(r) /\ req'[r].op \in BulkOps)
            => ( /\ Granted(r) =>
                      req'[r].pids = OwnedBy(req'[r].user, req'[r].pids)
                 /\ Forbidden(r) =>
                      req'[r].pids # OwnedBy(req'[r].user, req'[r].pids) )]_vars

\* C14 (witness): an admin soft-deleted or restored a project of another
\* user, and the admin's bulk update of that user's project was answered
\* 403
C14_Witness ==
    \E a, b \in Requests :
        /\ req[a].user = "root" /\ req[a].op \in {"soft_delete", "restore"}
        /\ req[a].resp = 200
        /\ req[b].user = "root" /\ req[b].op = "bulk_update"
        /\ req[b].pids = {1} /\ req[b].resp = 403

\* C15: a bulk update that lists a project the caller does not own, or a
\* project whose etag differs from the etag supplied, is answered 403 or
\* 409 at once and changes nothing: the Project table and the ledger stay
\* as they were and no transaction holds a write.
C15_BulkAllOrNothing ==
    [][\A r \in Requests :
         ( /\ Starts(r)
           /\ req'[r].op = "bulk_update"
           /\ req'[r].etag # NoEtag
           /\ \E p \in req'[r].pids :
                \/ p \notin DOMAIN projects
                \/ projects[p].deleted
                \/ projects[p].owner # req'[r].user
                \/ projects[p].etag # req'[r].etag )
         => ( /\ req'[r].pc = "done"
              /\ req'[r].resp \in {403, 409}
              /\ req'[r].at = 0
              /\ projects' = projects
              /\ ledger' = ledger
              /\ txn' = txn )]_vars

\* C15 (witness): a bulk update of two existing projects, one of them
\* owned by another user, was answered 403
C15_Witness ==
    \E r \in Requests :
        /\ req[r].op = "bulk_update"
        /\ req[r].pids = {1, 2}
        /\ req[r].resp = 403
        /\ 2 \in DOMAIN projects
        /\ projects[1].owner = req[r].user
        /\ projects[2].owner # req[r].user

\* C16: a principal who cannot view a project cannot learn that it exists:
\* every project-scoped operation a principal starts on an existing project
\* they are neither admin, owner nor member of is answered with the 404 that
\* an id with no row gets.
C16_InvisibleIsNotFound ==
    [][\A r \in Requests :
          (/\ Starts(r)
           /\ req'[r].op \in SingleOwnerOps
           /\ req'[r].pid \in DOMAIN projects
           /\ ~can_view_project_details(req'[r].user, req'[r].pid))
          => req'[r].resp = 404]_vars

\* C17: for a successful project update, the diff the handler writes to the
\* ledger names exactly the tracked fields submitted with a value different
\* from the one stored when the update is applied, and previous_values and
\* new_values hold the stored and the submitted value of exactly those fields.
C17_LedgerDiffExact ==
    [][\A r \in Requests :
          (req[r].op = "update" /\ req[r].pc = "save" /\ req'[r].pc = "log")
          => LET stored == projects[req[r].pid].f
                 d == req[r].data
                 differing == {k \in TrackedFields :
                                  k \in DOMAIN d /\ stored[k] # d[k]}
                 ch == req[r].changes
             IN  /\ ch.changed_fields = differing
                 /\ DOMAIN ch.previous_values = differing
                 /\ DOMAIN ch.new_values = differing
                 /\ \A k \in differing :
                       /\ ch.previous_values[k] = StrValue(k, stored[k])
                       /\ ch.new_values[k] = StrValue(k, d[k])]_vars

\* C18: a change to a project's persisted state and the append of its ledger
\* entry are atomic: no update request has ended, with whatever response,
\* having written the project row and not its ledger entry.
C18_WriteHasLedgerEntry ==
    \A r \in Requests :
        (req[r].op = "update" /\ req[r].pc = "done" /\ req[r].at # 0)
        => EntriesOf(r) # {}

\* C19: the acting principal is excluded from their own notification: no
\* session has received a notification_received message of a mutation that
\* the session's own user performed.
C19_ActorNotNotified ==
    \A s \in Sessions :
        \A i \in DOMAIN Received(s) :
            LET e == Received(s)[i]
            IN  e.type = "notification_received"
                => sess[s].user # req[e.req].user

\* C20: a failure in fan-out never fails the write that triggered it: an
\* update whose ledger entry is written has its row written and is never
\* answered with anything but the success response, and a step in which a
\* send to the project room raised leaves every row and the ledger as they
\* were.
C20_FanoutFailureSwallowed ==
    /\ [](\A r \in Requests :
            (req[r].op = "update" /\ EntriesOf(r) # {})
            => /\ req[r].at # 0
               /\ req[r].resp \in {0, 200}
               /\ (req[r].pc = "done" => req[r].resp = 200))
    /\ [][\A r \in Requests :
            (req'[r].logged > req[r].logged)
            => (projects' = projects /\ ledger' = ledger)]_vars

\* Both sends of an update raised while a session was in the project's
\* room: the session got nothing, the update is answered 200 and its
\* ledger entry is there
C20_Witness ==
    \E r \in Requests, s \in Sessions :
        /\ req[r].op = "update"
        /\ req[r].pc = "done"
        /\ req[r].resp = 200
        /\ req[r].logged = 2
        /\ EntriesOf(r) # {}
        /\ s \in Members(Group("project", req[r].pid))
        /\ EventsOf(s, r, req[r].pid) = {}

\* C21: a project is in the regular listing of those who may see it exactly
\* when it is not soft-deleted and in the deleted listing of its owner and
\* of an admin exactly when it is; a successful soft delete moves it to the
\* deleted listing, a successful restore moves it back, and a restore of a
\* project that is not deleted is refused with 400 and changes nothing.
C21_ListingFollowsTombstone ==
    /\ [](\A u \in Users, p \in DOMAIN projects :
            /\ CanViewProjectDetails(u, p)
               => (p \in get_queryset(u) <=> ~projects[p].deleted)
            /\ (projects[p].owner = u \/ u \in Superusers)
               => (p \in only_deleted(u) <=> projects[p].deleted))
    /\ [][\A r \in Requests, p \in ProjectIds, u \in Users :
            (Starts(r) /\ req'[r].pid = p /\ req'[r].user = u)
            =>  /\ (Starts(r) /\ req'[r].op = "soft_delete" /\ req'[r].resp = 200)
                   => (p \in get_queryset(u) /\ p \notin get_queryset(u)'
                       /\ p \in only_deleted(u)')
                /\ (Starts(r) /\ req'[r].op = "restore" /\ req'[r].resp = 200)
                   => (p \in only_deleted(u) /\ p \notin only_deleted(u)'
                       /\ p \in get_queryset(u)')
                /\ (Starts(r) /\ req'[r].op = "restore" /\ p \in DOMAIN projects
                      /\ ~projects[p].deleted)
                   => (req'[r].resp \in {400, 403} /\ projects' = projects
                       /\ ledger' = ledger)]_vars

\* The owner soft-deleted project 1 and then restored it: it is back in
\* the regular listing and out of the deleted one
C21_Witness ==
    \E r, q \in Requests :
        /\ req[r].op = "soft_delete" /\ req[r].resp = 200 /\ req[r].pid = 1
        /\ req[q].op = "restore" /\ req[q].resp = 200 /\ req[q].pid = 1
        /\ req[r].at < req[q].at
        /\ 1 \in get_queryset(projects[1].owner)
        /\ 1 \notin only_deleted(projects[1].owner)

\* C22: the ledger is append-only: in every step each entry already
\* written is still there, at its place and unmodified.
C22_LedgerAppendOnly ==
    [][\A i \in DOMAIN ledger :
          i \in DOMAIN ledger' /\ ledger'[i] = ledger[i]]_vars

\* C23: a successful bulk mutation of one or more projects has written
\* exactly one aggregate (bulk_updated) ledger entry for the whole batch,
\* whichever bulk endpoint performed it.
C23_OneAggregateEntry ==
    \A r \in Requests :
        (Succeeded(r) /\ req[r].op \in BulkOps /\ req[r].pids # {})
        => Cardinality({i \in EntriesOf(r) :
                           ledger[i].activity_type = "bulk_updated"}) = 1

ViewOps == {"update", "soft_delete", "changelog"}

\* The step in which request r of a user who is neither owner, admin nor
\* team member of an existing project is received
Unrelated(r) ==
    /\ Starts(r)
    /\ req'[r].op \in ViewOps
    /\ req'[r].pid \in DOMAIN projects
    /\ ~CanViewProjectDetails(req'[r].user, req'[r].pid)

\* C24 as stated: a project update, soft delete or changelog request of a
\* user who is neither owner, admin nor team member is refused with 403 and
\* leaves the project unchanged.
C24_UnrelatedForbidden ==
    [][\A r \in Requests :
          Unrelated(r) => (req'[r].resp = 403 /\ projects' = projects)]_vars

\* C24: a project update, soft delete or changelog request of a user who
\* is neither owner, admin nor team member is refused with 404, the answer
\* a missing project gets, and leaves the project and the ledger unchanged.
C24_UnrelatedNotFound ==
    [][\A r \in Requests :
          Unrelated(r) => (req'[r].pc = "done" /\ req'[r].resp = 404
                           /\ projects' = projects /\ ledger' = ledger)]_vars

\* eve, who has nothing to do with the live project 1, was answered 404
C24_Witness ==
    \E r \in Requests :
        /\ req[r].op \in ViewOps
        /\ req[r].user = "eve"
        /\ req[r].pid = 1
        /\ req[r].resp = 404
        /\ 1 \in DOMAIN projects
        /\ ~projects[1].deleted
        /\ ~CanViewProjectDetails("eve", 1)

\* C25: every ledger entry that the activities endpoint of a project
\* returns after user-driven API operations names a non-null acting user.
C25_EntryNamesActor ==
    \A i \in DOMAIN ledger : ledger[i].user # NoneVal

\* C26: each session in a project's group belongs to a principal who can
\* currently view the project: a step that takes the view permission on a
\* project from a user leaves none of that user's sessions in a group of
\* the project.
C26_RevokedLeavesGroup ==
    [][\A s \in Sessions, u \in Users, p \in ProjectIds, k \in ProjectGroupKinds :
         ( /\ sess[s].user = u
           /\ p \in DOMAIN projects
           /\ can_view_project_details(u, p)
           /\ ~can_view_project_details(u, p)' )
         => <<Group(k, p), s>> \notin groups']_vars

Refusals == {400, 403, 404, 409}

\* C27: an operation that is refused (403, 404, 409 or 400) has no effect:
\* the step that refuses it changes no project, team-membership or
\* milestone row, appends no ledger entry and sends no event, and the
\* request has written no row, no ledger entry and no event before it.
C27_RefusedNoEffect ==
    [][\A r \in Requests :
          (req[r].pc # "done" /\ req'[r].pc = "done" /\ req'[r].resp \in Refusals)
          => /\ projects' = projects
             /\ team' = team
             /\ milestones' = milestones
             /\ tasks' = tasks
             /\ ledger' = ledger
             /\ inbox' = inbox
             /\ txn[r] = NoTxn
             /\ req'[r].at = 0
             /\ EntriesOf(r) = {}
             /\ \A s \in Sessions :
                   \A i \in DOMAIN Received(s) : Received(s)[i].req # r]_vars

\* An update was refused with 409 while a session was in the project's
\* room, and the session has nothing from it
C27_Witness ==
    \E r \in Requests, s \in Sessions :
        /\ req[r].op = "update"
        /\ req[r].pc = "done"
        /\ req[r].resp = 409
        /\ s \in Members(Group("project", req[r].pid))
        /\ EventsOf(s, r, req[r].pid) = {}

\* C28: every event kind that a broadcast function sends to a group has a
\* handler on every consumer class whose sessions can be members of the
\* group: delivering a message never terminates an open session.
C28_DeliveryNeverCrashes ==
    [][\A s \in Sessions :
          (sess[s].state = "open" /\ inbox[s] # <<>> /\ inbox'[s] = Tail(inbox[s]))
          => sess'[s].state = "open"]_vars

\* C29: two distinct projects never carry the same etag.
C29_EtagsDistinct ==
    \A p, q \in DOMAIN projects :
        p # q => projects[p].etag # projects[q].etag

\* C30: every project's persisted status is one of active / on_hold /
\* archived / completed, its health one of healthy / at_risk / critical and
\* its progress within 0..100.
C30_FieldDomains ==
    \A p \in DOMAIN projects :
        /\ projects[p].f.status \in STATUS_CHOICES
        /\ projects[p].f.health \in HEALTH_CHOICES
        /\ projects[p].f.progress \in 0..100

====
